---- MODULE Spec2Model ----
(***************************************************************************)
(* CloudFace AI front-end: the service worker (src/sw.js) and the PWA      *)
(* install-prompt controller (src/static/pwa-install.js).                  *)
(*                                                                         *)
(* URL paths are sequences of one-character strings, so that               *)
(* String.prototype.startsWith is computed, not assumed.                   *)
(***************************************************************************)
EXTENDS Integers, Sequences, FiniteSets

VARIABLES
    worker,             \* lifecycle state of this service worker
    step,               \* position inside the running install/activate handler
    caches,             \* CacheStorage: sequence (creation order) of [name, entries]
    toDelete,           \* activate: caches.delete calls still pending
    skipWaitingCalled,  \* self.skipWaiting() was called
    claimed,            \* self.clients.claim() was called
    handlers,           \* fetch handler instances, one per dispatched FetchEvent
    isStandalone,       \* pwa-install.js: const isStandalone
    isIOS,              \* pwa-install.js: const isIOS
    dismissed,          \* localStorage['pwa_install_dismissed'] === '1'
    deferredPrompt,     \* 0 = null, n = the n-th beforeinstallprompt event
    bannerShown,        \* pwa-install.js: let bannerShown
    banner,             \* the banner element attached to document.body, if any
    appended,           \* number of document.body.appendChild(banner) calls
    loaded,             \* the window load event has fired
    timer,              \* the 5000 ms setTimeout of the generic trigger
    awaiting,           \* 0, or the prompt whose userChoice the click handler awaits
    choice,             \* how the awaited userChoice settled last
    nPrompts,           \* beforeinstallprompt events dispatched so far
    prevented,          \* defaultPrevented of the last beforeinstallprompt event
    swApi,              \* 'serviceWorker' in navigator
    protocol,           \* location.protocol
    hostname,           \* location.hostname
    registration,       \* the promise of navigator.serviceWorker.register, if called
    pushes,             \* sw.js: the push events handled so far, with their effect
    notifications,      \* notifications on display
    windowsOpened,      \* clients.openWindow('/') calls
    now,                \* the page's clock (Date.now()), in ms since navigation start
    pageLoaded,         \* the load listener of the page script has run
    hasBeacon,          \* navigator.sendBeacon exists
    loadedAt,           \* Date.now() when initAnalytics ran
    lastPingAt,         \* initAnalytics: let lastPingAt
    nextPing,           \* time at which the setInterval callback is due next
    reported,           \* sum of the seconds of all pings sent
    unloads,            \* beforeunload events dispatched so far
    pageviews,          \* pageview events sent
    lastSend,           \* the last call of sendAnalytics and what it did
    hasTrialBanner,     \* the page has #trialBanner and #trialText
    hasUsageWidget,     \* the page has #usageWidget
    trial,              \* loadTrialStatus: its fetch and the response it got
    trialBanner,        \* #trialBanner style.display
    trialText,          \* #trialText innerHTML
    upgradeModal,       \* #upgradeModal style.display
    usage,              \* loadUsageStats: its fetch and the response it got
    usageWidget,        \* #usageWidget style.display
    discountTimer,      \* the setTimeout of scheduleDiscountPopup
    discountModal,      \* #discountModal style.display
    discountDismissed,  \* localStorage['cf_discount_popup_dismissed'] === '1'
    discountOpens,      \* openDiscountModal calls
    profile,            \* loadUserProfile: its fetch and the response it got
    profileModal,       \* #profileModal style.display
    save                \* saveProfileDetails: its POST and the response it got

swVars == <<worker, step, caches, toDelete, skipWaitingCalled, claimed, handlers>>
locVars == <<swApi, protocol, hostname>>
pwaVars == <<isStandalone, isIOS, dismissed, deferredPrompt, bannerShown, banner,
             appended, loaded, timer, awaiting, choice, nPrompts, prevented,
             locVars, registration>>
pushVars == <<pushes, notifications, windowsOpened>>
analyticsVars == <<now, pageLoaded, hasBeacon, loadedAt, lastPingAt, nextPing, reported,
                   unloads, pageviews, lastSend>>
trialVars == <<trial, trialBanner, trialText, upgradeModal>>
usageVars == <<usage, usageWidget, discountTimer, discountModal, discountDismissed,
               discountOpens>>
profileVars == <<profile, profileModal, save>>
monetVars == <<hasTrialBanner, hasUsageWidget, trialVars, usageVars, profileVars>>
pageVars == <<analyticsVars, monetVars>>
vars == <<swVars, pwaVars, pushVars, pageVars>>

\* ----------------------------------------------------------------- bounds

\* FetchEvents dispatched to the active worker in one run.
MaxHandlers == 2
\* beforeinstallprompt events dispatched to one page.
MaxPrompts == 3
\* Push messages delivered to the active worker in one run.
MaxPushes == 2
\* The page's clock runs for MaxClock ticks of TickMs.
MaxClock == 7
\* beforeunload events dispatched to one page.
MaxUnloads == 2

\* ------------------------------------------------------------ sw.js: data

CACHE_NAME == "cloudface-ai-v3"
STATIC_CACHE == "cloudface-static-v3"

\* Cache names a browser profile may hold from earlier deployments.
OldCacheNames == <<"cloudface-static-v2", "cloudface-ai-v2", "cloudface-ai-v3">>

STATIC_FILES == <<
    <<"/">>,
    <<"/", "m", "a", "n", "i", "f", "e", "s", "t", ".", "j", "s", "o", "n">>,
    <<"/", "f", "a", "v", "i", "c", "o", "n", ".", "i", "c", "o">>,
    <<"/", "a", "p", "p", "l", "e", "-", "t", "o", "u", "c", "h", "-", "i", "c", "o", "n", ".", "p", "n", "g">>,
    <<"/", "f", "a", "v", "i", "c", "o", "n", "-", "3", "2", "x", "3", "2", ".", "p", "n", "g">>,
    <<"/", "f", "a", "v", "i", "c", "o", "n", "-", "1", "6", "x", "1", "6", ".", "p", "n", "g">>,
    <<"/", "s", "t", "a", "t", "i", "c", "/", "C", "l", "o", "u", "d", "f", "a", "c", "e", "-", "a", "i", "-", "l", "o", "g", "o", ".", "p", "n", "g">>,
    <<"/", "s", "t", "a", "t", "i", "c", "/", "p", "w", "a", "-", "i", "n", "s", "t", "a", "l", "l", ".", "c", "s", "s">>,
    <<"/", "s", "t", "a", "t", "i", "c", "/", "p", "w", "a", "-", "i", "n", "s", "t", "a", "l", "l", ".", "j", "s">>,
    <<"/", "s", "t", "a", "t", "i", "c", "/", "p", "w", "a", "-", "1", "9", "2", ".", "p", "n", "g">>,
    <<"/", "s", "t", "a", "t", "i", "c", "/", "p", "w", "a", "-", "5", "1", "2", ".", "p", "n", "g">> >>

StaticFileSet == {STATIC_FILES[i] : i \in 1..Len(STATIC_FILES)}

RootPath == <<"/">>

\* The prefixes of the fetch handler's "dynamic or sensitive routes" test.
DENYLIST == <<
    <<"/", "a", "p", "i", "/">>,
    <<"/", "a", "u", "t", "h", "/">>,
    <<"/", "a", "d", "m", "i", "n">>,
    <<"/", "p", "h", "o", "t", "o", "/">>,
    <<"/", "s", "e", "a", "r", "c", "h">>,
    <<"/", "p", "r", "o", "c", "e", "s", "s">> >>

STATIC_PREFIX == <<"/", "s", "t", "a", "t", "i", "c", "/">>

STATIC_DESTINATIONS == {"style", "script", "image", "font"}

\* String.prototype.startsWith
StartsWith(s, p) == Len(s) >= Len(p) /\ SubSeq(s, 1, Len(p)) = p

\* ------------------------------------------------------- requests, responses

Req(m, o, p, md, d) ==
    [method |-> m, origin |-> o, path |-> p, mode |-> md, destination |-> d]

NoReq == Req("", "", <<>>, "", "")

\* The requests a controlled page issues in the model.
Requests == {
    Req("GET", "same", <<"/">>, "navigate", "document"),
    Req("GET", "same", <<"/", "a", "p", "p">>, "navigate", "document"),
    Req("GET", "same", <<"/", "s", "t", "a", "t", "i", "c", "/", "x">>, "navigate", "document"),
    Req("GET", "same", <<"/", "a", "p", "i", "/", "m", "e">>, "navigate", "document"),
    Req("GET", "same", <<"/", "a", "u", "t", "h", "/", "x">>, "navigate", "document"),
    Req("GET", "same", <<"/", "a", "d", "m", "i", "n", "i", "s", "t", "r", "a", "t", "o", "r">>, "navigate", "document"),
    Req("GET", "same", <<"/", "s", "e", "a", "r", "c", "h">>, "cors", ""),
    Req("GET", "same", <<"/", "p", "h", "o", "t", "o", "/", "1">>, "no-cors", "image"),
    Req("GET", "same", <<"/", "p", "r", "o", "c", "e", "s", "s", "/", "1">>, "no-cors", "script"),
    Req("GET", "same", <<"/", "p", "h", "o", "t", "o">>, "cors", ""),
    Req("GET", "same", <<"/", "s", "t", "a", "t", "i", "c", "/", "a", ".", "c", "s", "s">>, "no-cors", "style"),
    Req("GET", "same", <<"/", "l", "o", "g", "o", ".", "p", "n", "g">>, "no-cors", "image"),
    Req("GET", "same", <<"/", "s", "t", "a", "t", "i", "c", "/", "x">>, "cors", ""),
    Req("GET", "cross", <<"/", "s", "t", "a", "t", "i", "c", "/", "a", ".", "c", "s", "s">>, "no-cors", "style"),
    Req("POST", "same", <<"/", "a", "p", "p">>, "navigate", "document") }

\* The requests of the events after the first: every state change of the
\* listener is reached with these, and an ignored request changes nothing
\* wherever it falls in the order of events.
LaterRequests == {
    Req("GET", "same", <<"/">>, "navigate", "document"),
    Req("GET", "same", <<"/", "a", "p", "p">>, "navigate", "document"),
    Req("GET", "same", <<"/", "s", "t", "a", "t", "i", "c", "/", "a", ".", "c", "s", "s">>, "no-cors", "style"),
    Req("GET", "same", <<"/", "l", "o", "g", "o", ".", "p", "n", "g">>, "no-cors", "image") }

Resp(s, t) == [kind |-> "response", status |-> s, type |-> t]
Undefined == [kind |-> "undefined", status |-> 0, type |-> ""]
NetworkError == [kind |-> "error", status |-> 0, type |-> ""]
Pending == [kind |-> "pending", status |-> 0, type |-> ""]

\* What fetch(request) can resolve with.  A navigation request has redirect
\* mode "manual", so a redirect yields an opaqueredirect response; a cors
\* request redirected to another origin yields a "cors" response.
NetResponses(req) ==
    IF req.mode = "navigate"
    THEN {Resp(200, "basic"), Resp(404, "basic"), Resp(0, "opaqueredirect")}
    ELSE {Resp(200, "basic"), Resp(404, "basic"), Resp(200, "cors")}

\* --------------------------------------------------------------- CacheStorage

EmptyEntries == [p \in {} |-> Undefined]

CacheNames(cs) == {cs[i].name : i \in 1..Len(cs)}

\* caches.open(name): the cache is created, last in creation order, if absent.
CachesOpen(cs, name) ==
    IF name \in CacheNames(cs) THEN cs
    ELSE Append(cs, [name |-> name, entries |-> EmptyEntries])

\* cache.put(request, response) on the cache called name; a cache deleted
\* after it was opened is written without becoming visible again.
CachePut(cs, name, key, resp) ==
    [i \in 1..Len(cs) |->
        IF cs[i].name = name
        THEN [cs[i] EXCEPT !.entries =
                [p \in DOMAIN cs[i].entries \cup {key} |->
                    IF p = key THEN resp ELSE cs[i].entries[p]]]
        ELSE cs[i]]

\* caches.delete(name)
CachesDelete(cs, name) == SelectSeq(cs, LAMBDA c : c.name # name)

\* caches.match(request): the first hit over the caches in creation order.
CachesMatch(cs, key) ==
    LET hits == {i \in 1..Len(cs) : key \in DOMAIN cs[i].entries}
    IN  IF hits = {} THEN Undefined
        ELSE cs[CHOOSE i \in hits : \A j \in hits : i <= j].entries[key]

\* cache.addAll(STATIC_FILES), all fetches having succeeded.
AddAllEntries(entries) ==
    [p \in DOMAIN entries \cup StaticFileSet |->
        IF p \in StaticFileSet THEN Resp(200, "basic") ELSE entries[p]]

CacheAddAll(cs, name) ==
    [i \in 1..Len(cs) |->
        IF cs[i].name = name
        THEN [cs[i] EXCEPT !.entries = AddAllEntries(cs[i].entries)]
        ELSE cs[i]]

\* The entries of the cache called name (none when it does not exist).
CacheEntries(cs, name) ==
    IF name \in CacheNames(cs)
    THEN cs[CHOOSE i \in 1..Len(cs) : cs[i].name = name].entries
    ELSE EmptyEntries

\* ------------------------------------------------------ sw.js: install event

\* Caches left in the profile when this worker starts installing: any
\* sub-sequence of the earlier generations.  An earlier static generation
\* holds the root document; a runtime generation is taken empty.
OldCache(name) ==
    [name |-> name,
     entries |-> IF name = "cloudface-static-v2"
                 THEN [p \in {RootPath} |-> Resp(200, "basic")]
                 ELSE EmptyEntries]

InitialCaches ==
    {SelectSeq([i \in 1..Len(OldCacheNames) |-> OldCache(OldCacheNames[i])],
               LAMBDA c : c.name \in keep) : keep \in SUBSET CacheNames(
                   [i \in 1..Len(OldCacheNames) |-> OldCache(OldCacheNames[i])])}

\* afterResp / afterStored record what an identical earlier request had
\* reached when this event was dispatched (see FetchEvent).
IdleHandler ==
    [req |-> NoReq, pc |-> "idle", responded |-> FALSE, result |-> Pending,
     netResp |-> Pending, ops |-> <<>>, afterResp |-> FALSE, afterStored |-> FALSE]

SWInit ==
    /\ worker = "installing"
    /\ step = "open"
    /\ caches \in InitialCaches
    /\ toDelete = {}
    /\ skipWaitingCalled = FALSE
    /\ claimed = FALSE
    /\ handlers = [h \in 1..MaxHandlers |-> IdleHandler]

\* caches.open(STATIC_CACHE)
InstallOpen ==
    /\ worker = "installing" /\ step = "open"
    /\ caches' = CachesOpen(caches, STATIC_CACHE)
    /\ step' = "addAll"
    /\ UNCHANGED <<worker, toDelete, skipWaitingCalled, claimed, handlers, pwaVars, pushVars, pageVars>>

\* cache.addAll(STATIC_FILES): the fetches of the files in failed fail.
\* addAll stores nothing unless every fetch succeeded.
InstallAddAll ==
    /\ worker = "installing" /\ step = "addAll"
    /\ \E failed \in SUBSET StaticFileSet :
         IF failed = {}
         THEN /\ caches' = CacheAddAll(caches, STATIC_CACHE)
              /\ step' = "skipWaiting"
         ELSE /\ caches' = caches
              /\ step' = "catch"
    /\ UNCHANGED <<worker, toDelete, skipWaitingCalled, claimed, handlers, pwaVars, pushVars, pageVars>>

\* .then(() => self.skipWaiting())
InstallSkipWaiting ==
    /\ worker = "installing" /\ step = "skipWaiting"
    /\ skipWaitingCalled' = TRUE
    /\ step' = "fulfilled"
    /\ UNCHANGED <<worker, caches, toDelete, claimed, handlers, pwaVars, pushVars, pageVars>>

\* How the promise returned by .catch((error) => { console.error(...) })
\* settles when the chain before it rejected: the handler returns undefined.
CatchOutcome == "fulfilled"

\* A slip: skipWaiting chained after the catch handler.
InstallCatchThenSkipWaiting ==
    /\ worker = "installing" /\ step = "catch"
    /\ step' = CatchOutcome
    /\ skipWaitingCalled' = TRUE
    /\ UNCHANGED <<worker, caches, toDelete, claimed, handlers, pwaVars, pushVars, pageVars>>

InstallCatch ==
    /\ worker = "installing" /\ step = "catch"
    /\ step' = CatchOutcome
    /\ UNCHANGED <<worker, caches, toDelete, skipWaitingCalled, claimed, handlers, pwaVars, pushVars, pageVars>>

\* The promise given to event.waitUntil has settled: the worker becomes
\* installed when it fulfilled and redundant when it rejected.
InstallSettled ==
    /\ worker = "installing" /\ step \in {"fulfilled", "rejected"}
    /\ worker' = IF step = "fulfilled" THEN "installed" ELSE "redundant"
    /\ step' = "idle"
    /\ UNCHANGED <<caches, toDelete, skipWaitingCalled, claimed, handlers, pwaVars, pushVars, pageVars>>

\* ----------------------------------------------------- sw.js: activate event

\* A slip in the test: || written for &&.
ShouldDeleteOr(cacheName) == cacheName # STATIC_CACHE \/ cacheName # CACHE_NAME

\* The test guarding caches.delete in the activate handler.
ShouldDelete(cacheName) == cacheName # STATIC_CACHE /\ cacheName # CACHE_NAME

\* The runtime dispatches activate to an installed worker.
ActivateEvent ==
    /\ worker = "installed"
    /\ worker' = "activating"
    /\ step' = "keys"
    /\ UNCHANGED <<caches, toDelete, skipWaitingCalled, claimed, handlers, pwaVars, pushVars, pageVars>>

\* caches.keys() resolves; Promise.all starts one caches.delete per old name.
ActivateKeys ==
    /\ worker = "activating" /\ step = "keys"
    /\ toDelete' = {n \in CacheNames(caches) : ShouldDelete(n)}
    /\ step' = "deleting"
    /\ UNCHANGED <<worker, caches, skipWaitingCalled, claimed, handlers, pwaVars, pushVars, pageVars>>

\* One of the pending caches.delete calls completes.
ActivateDelete(cacheName) ==
    /\ worker = "activating" /\ step = "deleting"
    /\ cacheName \in toDelete
    /\ caches' = CachesDelete(caches, cacheName)
    /\ toDelete' = toDelete \ {cacheName}
    /\ UNCHANGED <<worker, step, skipWaitingCalled, claimed, handlers, pwaVars, pushVars, pageVars>>

\* A slip: clients.claim() not chained on the deletions.
ActivateClaimEarly ==
    /\ worker = "activating" /\ step = "deleting"
    /\ claimed' = TRUE
    /\ step' = "fulfilled"
    /\ UNCHANGED <<worker, caches, toDelete, skipWaitingCalled, handlers, pwaVars, pushVars, pageVars>>

\* Promise.all resolved: .then(() => self.clients.claim())
ActivateClaim ==
    /\ worker = "activating" /\ step = "deleting"
    /\ toDelete = {}
    /\ claimed' = TRUE
    /\ step' = "fulfilled"
    /\ UNCHANGED <<worker, caches, toDelete, skipWaitingCalled, handlers, pwaVars, pushVars, pageVars>>

ActivateSettled ==
    /\ worker = "activating" /\ step = "fulfilled"
    /\ worker' = "activated"
    /\ step' = "idle"
    /\ UNCHANGED <<caches, toDelete, skipWaitingCalled, claimed, handlers, pwaVars, pushVars, pageVars>>

\* -------------------------------------------------------- sw.js: fetch event

IsDenylisted(pathname) == \E i \in 1..Len(DENYLIST) : StartsWith(pathname, DENYLIST[i])

IsStaticAsset(req) ==
    \/ req.destination \in STATIC_DESTINATIONS
    \/ StartsWith(req.path, STATIC_PREFIX)

\* A slip: the same-origin test left out of the chain.
ClassifyAnyOrigin(req) ==
    IF req.method # "GET" THEN "ignore"
    ELSE IF IsDenylisted(req.path) THEN "ignore"
    ELSE IF req.mode = "navigate" THEN "navigate"
    ELSE IF IsStaticAsset(req) THEN "static"
    ELSE "ignore"

\* A slip in the order: the navigation test made before the denylist test.
ClassifyNavFirst(req) ==
    IF req.method # "GET" THEN "ignore"
    ELSE IF req.origin # "same" THEN "ignore"
    ELSE IF req.mode = "navigate" THEN "navigate"
    ELSE IF IsDenylisted(req.path) THEN "ignore"
    ELSE IF IsStaticAsset(req) THEN "static"
    ELSE "ignore"

\* A slip: the navigation branch left out of the chain.
ClassifyNoNavigate(req) ==
    IF req.method # "GET" THEN "ignore"
    ELSE IF req.origin # "same" THEN "ignore"
    ELSE IF IsDenylisted(req.path) THEN "ignore"
    ELSE IF IsStaticAsset(req) THEN "static"
    ELSE "ignore"

\* A slip in the order: the static-asset test made before the navigation test.
ClassifyStaticFirst(req) ==
    IF req.method # "GET" THEN "ignore"
    ELSE IF req.origin # "same" THEN "ignore"
    ELSE IF IsDenylisted(req.path) THEN "ignore"
    ELSE IF IsStaticAsset(req) THEN "static"
    ELSE IF req.mode = "navigate" THEN "navigate"
    ELSE "ignore"

\* The chain of tests of the fetch listener, in the order of the code.
Classify(req) ==
    IF req.method # "GET" THEN "ignore"
    ELSE IF req.origin # "same" THEN "ignore"
    ELSE IF IsDenylisted(req.path) THEN "ignore"
    ELSE IF req.mode = "navigate" THEN "navigate"
    ELSE IF IsStaticAsset(req) THEN "static"
    ELSE "ignore"

\* Navigation branch: the response is cloned and put with no test.
NavCacheable(response) == TRUE

\* A slip in the test: the response type left out.
StaticCacheableStatusOnly(response) ==
    response.kind = "response" /\ response.status = 200

\* Static branch: response && response.status === 200 && response.type === 'basic'
StaticCacheable(response) ==
    response.kind = "response" /\ response.status = 200 /\ response.type = "basic"

\* A slip in the test: the cached response is never used.
CacheHitNever(cachedResponse) == FALSE

\* if (cachedResponse) of the static branch
CacheHit(cachedResponse) == cachedResponse # Undefined

Delivered(hd) == hd.responded /\ hd.result.kind # "pending"

\* A FetchEvent is dispatched; the listener runs to its first await.
\* afterResp: an identical request was answered before with a network
\* response that the static branch caches; afterStored: and the cache.put
\* of that response had completed.
FetchEvent(h, req) ==
    /\ worker = "activated"
    /\ handlers[h].pc = "idle"
    /\ \A g \in 1..(h - 1) : handlers[g].pc # "idle"
    /\ h > 1 => req \in LaterRequests
    /\ LET class == Classify(req)
           same == {g \in 1..MaxHandlers :
                      /\ handlers[g].req = req
                      /\ Delivered(handlers[g])
                      /\ StaticCacheable(handlers[g].netResp)}
           seen == [IdleHandler EXCEPT
                      !.req = req,
                      !.afterResp = (same # {}),
                      !.afterStored = (\E g \in same : handlers[g].pc = "stored")]
       IN  handlers' = [handlers EXCEPT ![h] =
             IF class = "navigate"
             THEN [seen EXCEPT !.pc = "navFetch", !.responded = TRUE, !.ops = <<"fetch">>]
             ELSE IF class = "static"
             THEN [seen EXCEPT !.pc = "stMatch", !.responded = TRUE, !.ops = <<"match">>]
             ELSE [seen EXCEPT !.pc = "pass"]]
    /\ UNCHANGED <<worker, step, caches, toDelete, skipWaitingCalled, claimed, pwaVars, pushVars, pageVars>>

\* Navigation: fetch(event.request) resolved with response.
NavFetchOk(h, response) ==
    /\ handlers[h].pc = "navFetch"
    /\ response \in NetResponses(handlers[h].req)
    /\ handlers' = [handlers EXCEPT ![h] =
         IF NavCacheable(response)
         THEN [@ EXCEPT !.pc = "open", !.result = response, !.netResp = response,
                        !.ops = Append(@, "open")]
         ELSE [@ EXCEPT !.pc = "done", !.result = response, !.netResp = response]]
    /\ UNCHANGED <<worker, step, caches, toDelete, skipWaitingCalled, claimed, pwaVars, pushVars, pageVars>>

\* Navigation: fetch(event.request) rejected; .catch calls caches.match(event.request).
NavFetchFail(h) ==
    /\ handlers[h].pc = "navFetch"
    /\ handlers' = [handlers EXCEPT ![h] =
         [@ EXCEPT !.pc = "navMatch", !.netResp = NetworkError, !.ops = Append(@, "match")]]
    /\ UNCHANGED <<worker, step, caches, toDelete, skipWaitingCalled, claimed, pwaVars, pushVars, pageVars>>

\* .then((cached) => cached || caches.match('/'))
NavMatch(h) ==
    /\ handlers[h].pc = "navMatch"
    /\ LET cached == CachesMatch(caches, handlers[h].req.path)
       IN  handlers' = [handlers EXCEPT ![h] =
             IF cached # Undefined
             THEN [@ EXCEPT !.pc = "done", !.result = cached]
             ELSE [@ EXCEPT !.pc = "navMatchRoot", !.ops = Append(@, "matchRoot")]]
    /\ UNCHANGED <<worker, step, caches, toDelete, skipWaitingCalled, claimed, pwaVars, pushVars, pageVars>>

\* caches.match('/') resolved: its value, a response or undefined, is the
\* value respondWith receives.
NavMatchRoot(h) ==
    /\ handlers[h].pc = "navMatchRoot"
    /\ handlers' = [handlers EXCEPT ![h] =
         [@ EXCEPT !.pc = "done", !.result = CachesMatch(caches, RootPath)]]
    /\ UNCHANGED <<worker, step, caches, toDelete, skipWaitingCalled, claimed, pwaVars, pushVars, pageVars>>

\* Static assets: caches.match(event.request) resolved.
StaticMatch(h) ==
    /\ handlers[h].pc = "stMatch"
    /\ LET cachedResponse == CachesMatch(caches, handlers[h].req.path)
       IN  handlers' = [handlers EXCEPT ![h] =
             IF CacheHit(cachedResponse)
             THEN [@ EXCEPT !.pc = "done", !.result = cachedResponse]
             ELSE [@ EXCEPT !.pc = "stFetch", !.ops = Append(@, "fetch")]]
    /\ UNCHANGED <<worker, step, caches, toDelete, skipWaitingCalled, claimed, pwaVars, pushVars, pageVars>>

\* Static assets: fetch(event.request) resolved with response.
StaticFetchOk(h, response) ==
    /\ handlers[h].pc = "stFetch"
    /\ response \in NetResponses(handlers[h].req)
    /\ handlers' = [handlers EXCEPT ![h] =
         IF StaticCacheable(response)
         THEN [@ EXCEPT !.pc = "open", !.result = response, !.netResp = response,
                        !.ops = Append(@, "open")]
         ELSE [@ EXCEPT !.pc = "done", !.result = response, !.netResp = response]]
    /\ UNCHANGED <<worker, step, caches, toDelete, skipWaitingCalled, claimed, pwaVars, pushVars, pageVars>>

\* Static assets: fetch(event.request) rejected; nothing catches it.
StaticFetchFail(h) ==
    /\ handlers[h].pc = "stFetch"
    /\ handlers' = [handlers EXCEPT ![h] =
         [@ EXCEPT !.pc = "done", !.result = NetworkError, !.netResp = NetworkError]]
    /\ UNCHANGED <<worker, step, caches, toDelete, skipWaitingCalled, claimed, pwaVars, pushVars, pageVars>>

\* caches.open(CACHE_NAME) resolved, after the response was handed back.
RuntimeOpen(h) ==
    /\ handlers[h].pc = "open"
    /\ caches' = CachesOpen(caches, CACHE_NAME)
    /\ handlers' = [handlers EXCEPT ![h] = [@ EXCEPT !.pc = "put", !.ops = Append(@, "put")]]
    /\ UNCHANGED <<worker, step, toDelete, skipWaitingCalled, claimed, pwaVars, pushVars, pageVars>>

\* A variant: the write chained into the promise given to respondWith, so
\* that a rejected write replaces the result.
RuntimePutAwaited(h, ok) ==
    /\ handlers[h].pc = "put"
    /\ IF ok
       THEN /\ caches' = CachePut(caches, CACHE_NAME, handlers[h].req.path, handlers[h].netResp)
            /\ handlers' = [handlers EXCEPT ![h] = [@ EXCEPT !.pc = "stored"]]
       ELSE /\ caches' = caches
            /\ handlers' = [handlers EXCEPT ![h] =
                 [@ EXCEPT !.pc = "putFailed", !.result = NetworkError]]
    /\ UNCHANGED <<worker, step, toDelete, skipWaitingCalled, claimed, pwaVars, pushVars, pageVars>>

\* cache.put(event.request, responseToCache) settled; ok is FALSE when the
\* write was rejected (storage quota), which the code leaves unhandled.
RuntimePut(h, ok) ==
    /\ handlers[h].pc = "put"
    /\ IF ok
       THEN /\ caches' = CachePut(caches, CACHE_NAME, handlers[h].req.path, handlers[h].netResp)
            /\ handlers' = [handlers EXCEPT ![h] = [@ EXCEPT !.pc = "stored"]]
       ELSE /\ caches' = caches
            /\ handlers' = [handlers EXCEPT ![h] = [@ EXCEPT !.pc = "putFailed"]]
    /\ UNCHANGED <<worker, step, toDelete, skipWaitingCalled, claimed, pwaVars, pushVars, pageVars>>

NextSW ==
    \/ InstallOpen
    \/ InstallAddAll
    \/ InstallSkipWaiting
    \/ InstallCatch
    \/ InstallSettled
    \/ ActivateEvent
    \/ ActivateKeys
    \/ \E n \in toDelete : ActivateDelete(n)
    \/ ActivateClaim
    \/ ActivateSettled
    \/ \E h \in 1..MaxHandlers, req \in Requests : FetchEvent(h, req)
    \/ \E h \in 1..MaxHandlers :
         \/ \E response \in NetResponses(handlers[h].req) : NavFetchOk(h, response)
         \/ NavFetchFail(h)
         \/ NavMatch(h)
         \/ NavMatchRoot(h)
         \/ StaticMatch(h)
         \/ \E response \in NetResponses(handlers[h].req) : StaticFetchOk(h, response)
         \/ StaticFetchFail(h)
         \/ RuntimeOpen(h)
         \/ \E ok \in BOOLEAN : RuntimePut(h, ok)

\* -------------------------------------------- sw.js: push, notificationclick

\* event.data of a push event: absent, the text of a JSON object, the text
\* "null" (valid JSON that is not an object), or text that is not JSON.
PushPayloads == {"absent", "object", "null", "malformed"}

\* event.data.json() throws a SyntaxError.
JsonThrows(payload) == payload = "malformed"

\* data.body throws a TypeError (data is null).
ReadThrows(payload) == payload = "null"

\* The push listener run on one event: whether showNotification was called
\* and whether an exception left the listener (it has no try / catch).
PushListener(payload) ==
    IF payload = "absent"
    THEN [payload |-> payload, shown |-> FALSE, threw |-> FALSE]
    ELSE IF JsonThrows(payload) \/ ReadThrows(payload)
    THEN [payload |-> payload, shown |-> FALSE, threw |-> TRUE]
    ELSE [payload |-> payload, shown |-> TRUE, threw |-> FALSE]

\* A push message is delivered to the active worker.
PushEvent(payload) ==
    /\ worker = "activated"
    /\ Len(pushes) < MaxPushes
    /\ pushes' = Append(pushes, PushListener(payload))
    /\ notifications' = IF PushListener(payload).shown
                        THEN notifications + 1 ELSE notifications
    /\ UNCHANGED <<windowsOpened, swVars, pwaVars, pageVars>>

\* The user clicks a notification: it is closed and '/' is opened.
NotificationClick ==
    /\ notifications > 0
    /\ notifications' = notifications - 1
    /\ windowsOpened' = windowsOpened + 1
    /\ UNCHANGED <<pushes, swVars, pwaVars, pageVars>>

\* The worker's lifecycle with push messages, and no fetch events.
NextPush ==
    \/ InstallOpen
    \/ InstallAddAll
    \/ InstallSkipWaiting
    \/ InstallCatch
    \/ InstallSettled
    \/ ActivateEvent
    \/ ActivateKeys
    \/ \E n \in toDelete : ActivateDelete(n)
    \/ ActivateClaim
    \/ ActivateSettled
    \/ \E payload \in PushPayloads : PushEvent(payload)
    \/ NotificationClick

\* ------------------------------------------------- pwa-install.js: the page

INSTALL_MESSAGE == "Install CloudFace AI for faster access and offline support."
IOS_MESSAGE == "Install from Safari: tap Share -> Add to Home Screen."
GENERIC_MESSAGE == "Install CloudFace AI from your browser menu (Install App)."

NoBanner == [message |-> "", showInstall |-> FALSE]

\* How the promise deferredPrompt.userChoice can settle.
Outcomes == {"accepted", "dismissed", "rejected"}

\* A slip: the early return left out.
RegisteredAlways == TRUE

\* if (isStandalone) { return; }: the listeners below it are registered
\* only on a page that is not standalone.
Registered == ~isStandalone

\* The addresses the page is served from: (location.protocol, location.hostname).
Locations == {
    <<"https:", "cloudface.ai">>, <<"http:", "cloudface.ai">>,
    <<"http:", "localhost">>, <<"http:", "127.0.0.1">>, <<"http:", "192.168.1.10">>}

\* A slip in the test: the loopback address left out.
IsSecureContextNoLoopback(proto, host) ==
    proto = "https:" \/ host = "localhost"

\* const isSecureContext
IsSecureContext(proto, host) ==
    proto = "https:" \/ host = "localhost" \/ host = "127.0.0.1"

\* The load listener that registers the worker exists: the script passed
\* the standalone return and both if statements around addEventListener.
RegistersWorker == Registered /\ swApi /\ IsSecureContext(protocol, hostname)

SW_SCRIPT == "/sw.js"

NoRegistration == [state |-> "none", script |-> ""]

\* navigator.serviceWorker.register('/sw.js'), the promise pending.
RegisterCall == [state |-> "pending", script |-> SW_SCRIPT]

\* The state after the script ran: the platform flags and the persisted
\* dismissal are whatever the browser profile holds.
PWAInit ==
    /\ swApi \in BOOLEAN
    /\ \E loc \in Locations : protocol = loc[1] /\ hostname = loc[2]
    /\ registration = NoRegistration
    /\ isStandalone \in BOOLEAN
    /\ isIOS \in BOOLEAN
    /\ dismissed \in BOOLEAN
    /\ deferredPrompt = 0
    /\ bannerShown = FALSE
    /\ banner = NoBanner
    /\ appended = 0
    /\ loaded = FALSE
    /\ timer = "unset"
    /\ awaiting = 0
    /\ choice = "none"
    /\ nPrompts = 0
    /\ prevented = FALSE

\* Slips in the test: the latch, or the persisted flag, left out.
CreateBannerReturnsNoLatch == dismissed
CreateBannerReturnsNoFlag == bannerShown

\* createBanner: the test of its first statement.
CreateBannerReturns == dismissed \/ bannerShown

\* createBanner(message, showInstall)
CreateBanner(message, showInstall) ==
    IF CreateBannerReturns
    THEN UNCHANGED <<banner, bannerShown, appended>>
    ELSE /\ banner' = [message |-> message, showInstall |-> showInstall]
         /\ appended' = appended + 1
         /\ bannerShown' = TRUE

\* The browser dispatches beforeinstallprompt (never on iOS, which has no
\* such event).  Without a listener the event is not default-prevented.
BeforeInstallPrompt ==
    /\ ~isIOS
    /\ nPrompts < MaxPrompts
    /\ nPrompts' = nPrompts + 1
    /\ IF Registered
       THEN /\ prevented' = TRUE
            /\ deferredPrompt' = nPrompts + 1
            /\ CreateBanner(INSTALL_MESSAGE, TRUE)
       ELSE /\ prevented' = FALSE
            /\ UNCHANGED <<deferredPrompt, banner, bannerShown, appended>>
    /\ UNCHANGED <<isStandalone, isIOS, dismissed, loaded, timer, awaiting, choice,
                   locVars, registration, swVars, pushVars, pageVars>>

\* A slip: the load listener without its iOS branch.
LoadIgnoringIOS ==
    /\ ~loaded
    /\ loaded' = TRUE
    /\ IF ~Registered
       THEN UNCHANGED <<banner, bannerShown, appended, timer>>
       ELSE timer' = "pending" /\ UNCHANGED <<banner, bannerShown, appended>>
    /\ registration' = IF RegistersWorker THEN RegisterCall ELSE registration
    /\ UNCHANGED <<isStandalone, isIOS, dismissed, deferredPrompt, awaiting, choice,
                   nPrompts, prevented, locVars, swVars, pushVars, pageVars>>

\* The window load event: the iOS banner, or the start of the 5000 ms timer,
\* and the registration of the worker.
Load ==
    /\ ~loaded
    /\ loaded' = TRUE
    /\ IF ~Registered
       THEN UNCHANGED <<banner, bannerShown, appended, timer>>
       ELSE IF isIOS
       THEN CreateBanner(IOS_MESSAGE, FALSE) /\ timer' = timer
       ELSE timer' = "pending" /\ UNCHANGED <<banner, bannerShown, appended>>
    /\ registration' = IF RegistersWorker THEN RegisterCall ELSE registration
    /\ UNCHANGED <<isStandalone, isIOS, dismissed, deferredPrompt, awaiting, choice,
                   nPrompts, prevented, locVars, swVars, pushVars, pageVars>>

\* A slip in the test: the negation of deferredPrompt dropped.
TimerShowsWithPrompt == deferredPrompt # 0 /\ ~isStandalone /\ ~bannerShown

\* The test of the setTimeout callback.
TimerShows == deferredPrompt = 0 /\ ~isStandalone /\ ~bannerShown

\* A slip: the generic banner created with the Install button.
TimerFireWithInstall ==
    /\ timer = "pending"
    /\ timer' = "fired"
    /\ IF TimerShows
       THEN CreateBanner(GENERIC_MESSAGE, TRUE)
       ELSE UNCHANGED <<banner, bannerShown, appended>>
    /\ UNCHANGED <<isStandalone, isIOS, dismissed, deferredPrompt, loaded, awaiting,
                   choice, nPrompts, prevented, locVars, registration, swVars, pushVars, pageVars>>

\* The setTimeout callback runs.
TimerFire ==
    /\ timer = "pending"
    /\ timer' = "fired"
    /\ IF TimerShows
       THEN CreateBanner(GENERIC_MESSAGE, FALSE)
       ELSE UNCHANGED <<banner, bannerShown, appended>>
    /\ UNCHANGED <<isStandalone, isIOS, dismissed, deferredPrompt, loaded, awaiting,
                   choice, nPrompts, prevented, locVars, registration, swVars, pushVars, pageVars>>

\* A variant: removing the banner also resets the latch.
ClickInstallResetsLatch ==
    /\ banner # NoBanner /\ banner.showInstall
    /\ banner' = NoBanner
    /\ bannerShown' = FALSE
    /\ awaiting' = IF deferredPrompt = 0 THEN awaiting ELSE deferredPrompt
    /\ UNCHANGED <<isStandalone, isIOS, dismissed, deferredPrompt, appended,
                   loaded, timer, choice, nPrompts, prevented,
                   locVars, registration, swVars, pushVars, pageVars>>

\* Click on Install: the banner is removed and, with a captured prompt,
\* prompt() is called and the handler awaits userChoice.
ClickInstall ==
    /\ banner # NoBanner /\ banner.showInstall
    /\ banner' = NoBanner
    /\ awaiting' = IF deferredPrompt = 0 THEN awaiting ELSE deferredPrompt
    /\ UNCHANGED <<isStandalone, isIOS, dismissed, deferredPrompt, bannerShown, appended,
                   loaded, timer, choice, nPrompts, prevented,
                   locVars, registration, swVars, pushVars, pageVars>>

\* A slip: the catch block left empty.
FlagAfterChoiceNoCatch(outcome, flag) ==
    IF outcome = "rejected" THEN flag
    ELSE IF outcome # "accepted" THEN TRUE
    ELSE flag

\* The dismissal flag after userChoice settled with outcome (try / catch).
FlagAfterChoice(outcome, flag) ==
    IF outcome = "rejected" THEN TRUE
    ELSE IF outcome # "accepted" THEN TRUE
    ELSE flag

\* A slip: deferredPrompt = null written at the end of the try block
\* and not in finally.
UserChoiceNoFinally(outcome) ==
    /\ awaiting # 0
    /\ choice' = outcome
    /\ dismissed' = FlagAfterChoice(outcome, dismissed)
    /\ deferredPrompt' = IF outcome = "rejected" THEN deferredPrompt ELSE 0
    /\ awaiting' = 0
    /\ UNCHANGED <<isStandalone, isIOS, bannerShown, banner, appended, loaded, timer,
                   nPrompts, prevented, locVars, registration, swVars, pushVars, pageVars>>

\* The awaited userChoice settles; finally { deferredPrompt = null; }
UserChoice(outcome) ==
    /\ awaiting # 0
    /\ choice' = outcome
    /\ dismissed' = FlagAfterChoice(outcome, dismissed)
    /\ deferredPrompt' = 0
    /\ awaiting' = 0
    /\ UNCHANGED <<isStandalone, isIOS, bannerShown, banner, appended, loaded, timer,
                   nPrompts, prevented, locVars, registration, swVars, pushVars, pageVars>>

\* A slip: "Not now" removes the banner without writing the flag.
ClickDismissNoFlag ==
    /\ banner # NoBanner
    /\ banner' = NoBanner
    /\ UNCHANGED <<isStandalone, isIOS, dismissed, deferredPrompt, bannerShown, appended,
                   loaded, timer, awaiting, choice, nPrompts, prevented,
                   locVars, registration, swVars, pushVars, pageVars>>

\* A variant: "Not now" also drops the captured prompt.
ClickDismissClearsPrompt ==
    /\ banner # NoBanner
    /\ dismissed' = TRUE
    /\ banner' = NoBanner
    /\ deferredPrompt' = 0
    /\ UNCHANGED <<isStandalone, isIOS, bannerShown, appended, loaded,
                   timer, awaiting, choice, nPrompts, prevented,
                   locVars, registration, swVars, pushVars, pageVars>>

\* Click on "Not now".
ClickDismiss ==
    /\ banner # NoBanner
    /\ dismissed' = TRUE
    /\ banner' = NoBanner
    /\ UNCHANGED <<isStandalone, isIOS, deferredPrompt, bannerShown, appended, loaded,
                   timer, awaiting, choice, nPrompts, prevented,
                   locVars, registration, swVars, pushVars, pageVars>>

\* The promise of register settles; .catch(() => {}) handles a rejection
\* and nothing else reads the promise.
RegisterSettle(ok) ==
    /\ registration.state = "pending"
    /\ registration' = [registration EXCEPT !.state = IF ok THEN "registered" ELSE "caught"]
    /\ UNCHANGED <<isStandalone, isIOS, dismissed, deferredPrompt, bannerShown, banner,
                   appended, loaded, timer, awaiting, choice, nPrompts, prevented,
                   locVars, swVars, pushVars, pageVars>>

\* The page is loaded anew: the script starts again with fresh variables
\* and an empty document, while localStorage, the user agent and the
\* display mode stay as they were.
Reload ==
    /\ deferredPrompt' = 0
    /\ bannerShown' = FALSE
    /\ banner' = NoBanner
    /\ appended' = 0
    /\ loaded' = FALSE
    /\ timer' = "unset"
    /\ awaiting' = 0
    /\ nPrompts' = 0
    /\ prevented' = FALSE
    /\ registration' = NoRegistration
    /\ UNCHANGED <<isStandalone, isIOS, dismissed, choice, locVars, swVars, pushVars, pageVars>>

NextPWA ==
    \/ BeforeInstallPrompt
    \/ Load
    \/ TimerFire
    \/ ClickInstall
    \/ \E outcome \in Outcomes : UserChoice(outcome)
    \/ ClickDismiss
    \/ \E ok \in BOOLEAN : RegisterSettle(ok)

\* The controller over several loads of the page.
NextPWAReload ==
    \/ NextPWA
    \/ Reload

\* ------------------------------------------------- page script: analytics
\* The page script as quoted in ROUTE_VERIFICATION_REPORT.md: the install
\* banner code above followed, inside the same function and after its
\* standalone return, by analytics and the monetization UI.

\* initAnalytics: const pingIntervalMs
pingIntervalMs == 30000
\* scheduleDiscountPopup: the delay given to setTimeout
discountDelayMs == 10000
\* One tick of the clock.
TickMs == discountDelayMs \div 2

\* window.location.pathname + window.location.search, document.title
PageUrl == "/app?tab=search"
PageTitle == "CloudFace AI"

\* Math.round(ms / 1000) for ms >= 0
RoundSeconds(ms) == (ms + 500) \div 1000

\* How the transport used by one call behaves: sendBeacon returns true,
\* returns false or throws; fetch resolves, rejects or throws.
TransportOutcomes == {"ok", "fails", "throws"}

NoSend == [url |-> "none", payload |-> <<>>, useBeacon |-> FALSE, outcome |-> "ok",
           beacons |-> 0, fetches |-> 0, threw |-> FALSE, unhandled |-> FALSE]

\* What leaves try { ... } catch (e) { } when the body throws: nothing.
Caught(thrown) == FALSE

\* What is left of a rejected promise after .catch(() => {}): nothing.
CatchHandled(rejected) == FALSE

\* A variant: a refused beacon is sent again with fetch.
SendAnalyticsWithFallback(url, payload, useBeacon, outcome) ==
    LET beacon == useBeacon /\ hasBeacon
    IN  [url |-> url, payload |-> payload, useBeacon |-> useBeacon, outcome |-> outcome,
         beacons |-> IF beacon THEN 1 ELSE 0,
         fetches |-> IF beacon /\ outcome = "ok" THEN 0 ELSE 1,
         threw |-> Caught(outcome = "throws"),
         unhandled |-> IF beacon THEN FALSE ELSE CatchHandled(outcome = "fails")]

\* sendAnalytics(url, payload, useBeacon) with a transport that behaves as
\* outcome: the transport calls made and what reaches the caller.
SendAnalytics(url, payload, useBeacon, outcome) ==
    LET beacon == useBeacon /\ hasBeacon
    IN  [url |-> url, payload |-> payload, useBeacon |-> useBeacon, outcome |-> outcome,
         beacons |-> IF beacon THEN 1 ELSE 0,
         fetches |-> IF beacon THEN 0 ELSE 1,
         threw |-> Caught(outcome = "throws"),
         unhandled |-> IF beacon THEN FALSE ELSE CatchHandled(outcome = "fails")]

\* The fetch of one of the three loaders, and the response it got.
NoData == [kind |-> "none"]
IdleFetch == [pc |-> "idle", data |-> NoData]
PendingFetch == [pc |-> "pending", data |-> NoData]
DoneFetch(data) == [pc |-> "done", data |-> data]

\* The load listener: initAnalytics(); initMonetizationUi().  The listener
\* is registered after the standalone return, so never on a standalone page.
\* The page carries the three modal elements.
PageLoad ==
    /\ ~pageLoaded
    /\ pageLoaded' = TRUE
    /\ IF ~Registered
       THEN UNCHANGED <<loadedAt, lastPingAt, nextPing, pageviews, lastSend,
                        trial, usage, profile>>
       ELSE /\ loadedAt' = now
            /\ lastPingAt' = now
            /\ nextPing' = now + pingIntervalMs
            /\ pageviews' = pageviews + 1
            /\ \E outcome \in TransportOutcomes :
                 lastSend' = SendAnalytics("pageview",
                                [page_url |-> PageUrl, page_title |-> PageTitle],
                                FALSE, outcome)
            /\ trial' = IF hasTrialBanner THEN PendingFetch ELSE trial
            /\ usage' = IF hasUsageWidget THEN PendingFetch ELSE usage
            /\ profile' = PendingFetch
    /\ UNCHANGED <<now, hasBeacon, reported, unloads, hasTrialBanner, hasUsageWidget,
                   trialBanner, trialText, upgradeModal, usageWidget, discountTimer,
                   discountModal, discountDismissed, discountOpens, profileModal, save,
                   swVars, pwaVars, pushVars>>

\* The setInterval callback is due.
PingDue == pageLoaded /\ Registered /\ now >= nextPing

\* Time passes; a due interval callback runs first.
Tick ==
    /\ now < MaxClock * TickMs
    /\ ~PingDue
    /\ now' = now + TickMs
    /\ UNCHANGED <<pageLoaded, hasBeacon, loadedAt, lastPingAt, nextPing, reported,
                   unloads, pageviews, lastSend, monetVars, swVars, pwaVars, pushVars>>

\* The setInterval callback: the periodic flush.
IntervalPing ==
    /\ PingDue
    /\ LET seconds == RoundSeconds(now - lastPingAt)
       IN  /\ lastPingAt' = now
           /\ reported' = reported + seconds
           /\ \E outcome \in TransportOutcomes :
                lastSend' = SendAnalytics("ping",
                               [page_url |-> PageUrl, seconds |-> seconds], FALSE, outcome)
    /\ nextPing' = nextPing + pingIntervalMs
    /\ UNCHANGED <<now, pageLoaded, hasBeacon, loadedAt, unloads, pageviews, monetVars,
                   swVars, pwaVars, pushVars>>

\* The beforeunload listener: the unload ping, sent with the beacon.  The
\* event is dispatched again when the page stayed (a cancelled navigation,
\* a download); lastPingAt is not assigned.
BeforeUnload ==
    /\ pageLoaded /\ Registered
    /\ unloads < MaxUnloads
    /\ unloads' = unloads + 1
    /\ LET seconds == RoundSeconds(now - lastPingAt)
       IN  /\ reported' = reported + seconds
           /\ \E outcome \in TransportOutcomes :
                lastSend' = SendAnalytics("ping",
                               [page_url |-> PageUrl, seconds |-> seconds], TRUE, outcome)
    /\ UNCHANGED <<now, pageLoaded, hasBeacon, loadedAt, lastPingAt, nextPing, pageviews,
                   monetVars, swVars, pwaVars, pushVars>>

\* The error and unhandledrejection listeners.
ErrorEvent(type) ==
    /\ pageLoaded /\ Registered
    /\ \E outcome \in TransportOutcomes :
         lastSend' = SendAnalytics("error", [page_url |-> PageUrl, message |-> type],
                                   FALSE, outcome)
    /\ UNCHANGED <<now, pageLoaded, hasBeacon, loadedAt, lastPingAt, nextPing, reported,
                   unloads, pageviews, monetVars, swVars, pwaVars, pushVars>>

NextAnalytics ==
    \/ PageLoad
    \/ Tick
    \/ IntervalPing
    \/ BeforeUnload
    \/ \E type \in {"error", "unhandledrejection"} : ErrorEvent(type)

\* The page before its load event.
AnalyticsIdle ==
    /\ now = 0 /\ pageLoaded = FALSE
    /\ loadedAt = 0 /\ lastPingAt = 0 /\ nextPing = 0 /\ reported = 0
    /\ unloads = 0 /\ pageviews = 0 /\ lastSend = NoSend

MonetIdle ==
    /\ trial = IdleFetch /\ trialBanner = "initial" /\ trialText = "initial"
    /\ upgradeModal = "none"
    /\ usage = IdleFetch /\ usageWidget = "initial"
    /\ discountTimer = [state |-> "unset", delay |-> 0]
    /\ discountModal = "none" /\ discountOpens = 0
    /\ profile = IdleFetch /\ profileModal = "none"
    /\ save = IdleFetch

\* The banner controller held still on a page that may be standalone.
PWAStill ==
    /\ isIOS = FALSE /\ dismissed = FALSE
    /\ deferredPrompt = 0 /\ bannerShown = FALSE /\ banner = NoBanner
    /\ appended = 0 /\ loaded = FALSE /\ timer = "unset"
    /\ awaiting = 0 /\ choice = "none" /\ nPrompts = 0 /\ prevented = FALSE
    /\ swApi = TRUE /\ protocol = "https:" /\ hostname = "cloudface.ai"
    /\ registration = NoRegistration

\* ------------------------------------------- page script: monetization UI

\* String.prototype.toLowerCase on the plan-type strings used here.
ToLowerCase(s) ==
    IF s \in {"FREE", "Free", "free"} THEN "free"
    ELSE IF s \in {"PRO", "Pro", "pro"} THEN "pro"
    ELSE s

\* A loader's fetch rejected, or response.json() rejected.
FetchFailed == [kind |-> "error"]
Unparsable == [kind |-> "unparsable"]

\* data.trial of the trial-status response: missing, or an object with or
\* without trial_start and expired.
TrialObjects == {"absent", "empty", "expired_only", "started", "started_expired"}
TrialStart(t) == t \in {"started", "started_expired"}
TrialExpired(t) == t \in {"expired_only", "started_expired"}

\* data.plan.plan_type of the trial-status response ("" when missing).
TrialPlanTypes == {"", "FREE", "pro"}

TrialJson(success, upgrade_required, t, plan_type) ==
    [kind |-> "json", success |-> success, upgrade_required |-> upgrade_required,
     trial |-> t, plan_type |-> plan_type]

TrialResponses ==
    {FetchFailed, Unparsable, TrialJson(FALSE, FALSE, "absent", "")}
    \cup {TrialJson(TRUE, u, t, p) : u \in BOOLEAN, t \in TrialObjects, p \in TrialPlanTypes}

\* loadTrialStatus after its fetch settled with data: the display of the
\* banner, its text and the display of the upgrade modal.
LoadTrialStatus(data, dom) ==
    IF data.kind # "json" THEN dom
    ELSE IF ~data.success THEN dom
    ELSE LET planType == ToLowerCase(data.plan_type)
             isFreePlan == planType = "free"
             shouldBlock == data.upgrade_required \/ (isFreePlan /\ TrialExpired(data.trial))
         IN  IF ~TrialStart(data.trial)
             THEN [dom EXCEPT !.banner = "none"]
             ELSE IF shouldBlock
             THEN [banner |-> "block", text |-> "ended", modal |-> "flex"]
             ELSE [dom EXCEPT !.text = "days", !.banner = "block"]

\* The fetch of /api/trial-status settles.
TrialResponse(data) ==
    /\ trial.pc = "pending"
    /\ trial' = DoneFetch(data)
    /\ LET dom == LoadTrialStatus(data, [banner |-> trialBanner, text |-> trialText,
                                         modal |-> upgradeModal])
       IN  /\ trialBanner' = dom.banner
           /\ trialText' = dom.text
           /\ upgradeModal' = dom.modal
    /\ UNCHANGED <<analyticsVars, hasTrialBanner, hasUsageWidget, usageVars, profileVars,
                   swVars, pwaVars, pushVars>>

\* window.openUpgradeModal, window.closeUpgradeModal: defined after the
\* standalone return.
OpenUpgradeModal ==
    /\ Registered
    /\ upgradeModal = "none"
    /\ upgradeModal' = "flex"
    /\ UNCHANGED <<analyticsVars, hasTrialBanner, hasUsageWidget, trial, trialBanner,
                   trialText, usageVars, profileVars, swVars, pwaVars, pushVars>>

CloseUpgradeModal ==
    /\ Registered
    /\ upgradeModal = "flex"
    /\ upgradeModal' = "none"
    /\ UNCHANGED <<analyticsVars, hasTrialBanner, hasUsageWidget, trial, trialBanner,
                   trialText, usageVars, profileVars, swVars, pwaVars, pushVars>>

\* stats.plan_type of the usage-stats response ("" when missing).
UsagePlanTypes == {"", "free", "Free", "pro"}

UsageJson(success, plan_type) ==
    [kind |-> "json", success |-> success, plan_type |-> plan_type]

UsageResponses ==
    {FetchFailed, Unparsable, UsageJson(FALSE, "")}
    \cup {UsageJson(TRUE, p) : p \in UsagePlanTypes}

\* A slip: the plan type compared without toLowerCase.
ScheduleDiscountPopupCaseSensitive(plan_type) ==
    IF plan_type # "free" THEN discountTimer
    ELSE IF discountDismissed THEN discountTimer
    ELSE [state |-> "pending", delay |-> discountDelayMs]

\* scheduleDiscountPopup(stats): the timer after the call.
ScheduleDiscountPopup(plan_type) ==
    IF ToLowerCase(plan_type) # "free" THEN discountTimer
    ELSE IF discountDismissed THEN discountTimer
    ELSE [state |-> "pending", delay |-> discountDelayMs]

\* The fetch of /api/usage-stats settles.
UsageResponse(data) ==
    /\ usage.pc = "pending"
    /\ usage' = DoneFetch(data)
    /\ IF data.kind = "json" /\ data.success
       THEN /\ usageWidget' = "block"
            /\ discountTimer' = ScheduleDiscountPopup(data.plan_type)
       ELSE UNCHANGED <<usageWidget, discountTimer>>
    /\ UNCHANGED <<analyticsVars, hasTrialBanner, hasUsageWidget, trialVars, discountModal,
                   discountDismissed, discountOpens, profileVars, swVars, pwaVars, pushVars>>

\* The setTimeout callback: openDiscountModal().
DiscountTimerFire ==
    /\ discountTimer.state = "pending"
    /\ discountTimer' = [discountTimer EXCEPT !.state = "fired"]
    /\ discountModal' = "flex"
    /\ discountOpens' = discountOpens + 1
    /\ UNCHANGED <<analyticsVars, hasTrialBanner, hasUsageWidget, trialVars, usage,
                   usageWidget, discountDismissed, profileVars, swVars, pwaVars, pushVars>>

\* closeDiscountModal (window.closeDiscountModal, the backdrop click);
\* localStorage.setItem may throw, which is ignored.
CloseDiscountModal(stored) ==
    /\ Registered
    /\ discountModal' = "none"
    /\ discountDismissed' = (discountDismissed \/ stored)
    /\ UNCHANGED <<analyticsVars, hasTrialBanner, hasUsageWidget, trialVars, usage,
                   usageWidget, discountTimer, discountOpens, profileVars,
                   swVars, pwaVars, pushVars>>

ProfileJson(success, complete) ==
    [kind |-> "json", success |-> success, complete |-> complete]

ProfileResponses ==
    {FetchFailed, Unparsable, ProfileJson(FALSE, FALSE),
     ProfileJson(TRUE, TRUE), ProfileJson(TRUE, FALSE)}

\* The fetch of /api/user-profile (GET) settles.
ProfileResponse(data) ==
    /\ profile.pc = "pending"
    /\ profile' = DoneFetch(data)
    /\ profileModal' = IF data.kind = "json" /\ data.success /\ ~data.complete
                       THEN "flex" ELSE profileModal
    /\ UNCHANGED <<analyticsVars, hasTrialBanner, hasUsageWidget, trialVars, usageVars,
                   save, swVars, pwaVars, pushVars>>

\* window.closeProfileModal
CloseProfileModal ==
    /\ Registered
    /\ profileModal = "flex"
    /\ profileModal' = "none"
    /\ UNCHANGED <<analyticsVars, hasTrialBanner, hasUsageWidget, trialVars, usageVars,
                   profile, save, swVars, pwaVars, pushVars>>

\* The success field of the POST response body: true, a truthy value that
\* is not true, false, or missing.
SuccessValues == {"true", "yes", "false", "undefined"}
Truthy(v) == v \in {"true", "yes"}

SaveJson(success) == [kind |-> "json", success |-> success]

\* The body is the JSON text null: result.success throws.
NullBody == [kind |-> "null"]

SaveResponses ==
    {FetchFailed, Unparsable, NullBody} \cup {SaveJson(v) : v \in SuccessValues}

\* A slip: the modal closed on every parsed response.
SaveClosesOnAnyResponse(data) == data.kind = "json"

\* if (result.success) closeProfileModal(), inside try / catch
SaveCloses(data) == data.kind = "json" /\ Truthy(data.success)

\* window.saveProfileDetails, called from the open profile modal: the POST
\* is sent and the function waits for it.
SaveProfileDetails ==
    /\ Registered
    /\ profileModal = "flex"
    /\ save.pc # "pending"
    /\ save' = PendingFetch
    /\ UNCHANGED <<analyticsVars, hasTrialBanner, hasUsageWidget, trialVars, usageVars,
                   profile, profileModal, swVars, pwaVars, pushVars>>

\* The POST of saveProfileDetails settles.
SaveSettle(data) ==
    /\ save.pc = "pending"
    /\ save' = DoneFetch(data)
    /\ profileModal' = IF SaveCloses(data) THEN "none" ELSE profileModal
    /\ UNCHANGED <<analyticsVars, hasTrialBanner, hasUsageWidget, trialVars, usageVars,
                   profile, swVars, pwaVars, pushVars>>

NextMonet ==
    \/ PageLoad
    \/ \E data \in TrialResponses : TrialResponse(data)
    \/ OpenUpgradeModal
    \/ CloseUpgradeModal
    \/ \E data \in UsageResponses : UsageResponse(data)
    \/ DiscountTimerFire
    \/ \E stored \in BOOLEAN : CloseDiscountModal(stored)
    \/ \E data \in ProfileResponses : ProfileResponse(data)
    \/ CloseProfileModal
    \/ SaveProfileDetails
    \/ \E data \in SaveResponses : SaveSettle(data)

\* ------------------------------------------------------------ specifications

\* The page and the worker share no state (spec section 5): each is checked
\* with the other held still, the page as a standalone page that does
\* nothing, the worker before its install handler has run.
PWAParked ==
    /\ isStandalone = TRUE /\ isIOS = FALSE /\ dismissed = FALSE
    /\ deferredPrompt = 0 /\ bannerShown = FALSE /\ banner = NoBanner
    /\ appended = 0 /\ loaded = FALSE /\ timer = "unset"
    /\ awaiting = 0 /\ choice = "none" /\ nPrompts = 0 /\ prevented = FALSE
    /\ swApi = TRUE /\ protocol = "https:" /\ hostname = "cloudface.ai"
    /\ registration = NoRegistration

SWParked ==
    /\ worker = "installing" /\ step = "open" /\ caches = <<>>
    /\ toDelete = {} /\ skipWaitingCalled = FALSE /\ claimed = FALSE
    /\ handlers = [h \in 1..MaxHandlers |-> IdleHandler]

PushParked == pushes = <<>> /\ notifications = 0 /\ windowsOpened = 0

PageParked ==
    /\ AnalyticsIdle /\ MonetIdle
    /\ hasBeacon = TRUE /\ hasTrialBanner = TRUE /\ hasUsageWidget = TRUE
    /\ discountDismissed = FALSE

InitSW == SWInit /\ PWAParked /\ PushParked /\ PageParked
SpecSW == InitSW /\ [][NextSW]_vars

SpecPush == InitSW /\ [][NextPush]_vars

\* Analytics: the loaders' fetches stay pending.
InitAnalytics ==
    /\ SWParked /\ PushParked /\ PWAStill
    /\ isStandalone \in BOOLEAN
    /\ hasBeacon \in BOOLEAN
    /\ AnalyticsIdle /\ MonetIdle
    /\ hasTrialBanner = TRUE /\ hasUsageWidget = TRUE /\ discountDismissed = FALSE
SpecAnalytics == InitAnalytics /\ [][NextAnalytics]_vars

\* Monetization UI: within the first pingIntervalMs after load.
InitMonet ==
    /\ SWParked /\ PushParked /\ PWAStill
    /\ isStandalone \in BOOLEAN
    /\ hasBeacon = TRUE
    /\ AnalyticsIdle /\ MonetIdle
    /\ hasTrialBanner \in BOOLEAN /\ hasUsageWidget \in BOOLEAN
    /\ discountDismissed \in BOOLEAN
SpecMonet == InitMonet /\ [][NextMonet]_vars

InitPWA == PWAInit /\ SWParked /\ PushParked /\ PageParked
SpecPWA == InitPWA /\ [][NextPWA]_vars

\* The first visit (no flag stored yet), followed by any number of loads.
InitPWAFirstVisit == InitPWA /\ dismissed = FALSE
SpecPWAReload == InitPWAFirstVisit /\ [][NextPWAReload]_vars

\* ------------------------------------------------------------------ claims

Handlers == 1..MaxHandlers

\* The denylisted prefixes as the claims list them.
DenylistedPrefixes == {
    <<"/", "a", "p", "i", "/">>, <<"/", "a", "u", "t", "h", "/">>,
    <<"/", "a", "d", "m", "i", "n">>, <<"/", "p", "h", "o", "t", "o", "/">>,
    <<"/", "s", "e", "a", "r", "c", "h">>, <<"/", "p", "r", "o", "c", "e", "s", "s">>}

UnderDenylistedPrefix(pathname) == \E p \in DenylistedPrefixes : StartsWith(pathname, p)

\* C1: a GET request whose path starts with a denylisted prefix is never
\* intercepted: whatever its mode or destination, the listener returns
\* without respondWith, and the handler makes no cache or network call.
C1_DenylistedNotIntercepted ==
    \A h \in Handlers :
        (/\ handlers[h].pc # "idle"
         /\ handlers[h].req.method = "GET"
         /\ UnderDenylistedPrefix(handlers[h].req.path))
        => (/\ handlers[h].pc = "pass"
            /\ ~handlers[h].responded
            /\ handlers[h].ops = <<>>
            /\ handlers[h].result = Pending)

\* C1 witness: a same-origin navigation under a denylisted prefix was
\* dispatched to the active worker and passed through.
C1_Witness ==
    \E h \in Handlers :
        /\ handlers[h].pc = "pass"
        /\ handlers[h].req.method = "GET"
        /\ handlers[h].req.origin = "same"
        /\ handlers[h].req.mode = "navigate"
        /\ UnderDenylistedPrefix(handlers[h].req.path)

\* C2 (as claimed): when the network fetch of an intercepted navigation
\* fails, the value handed to respondWith is a cached response, never
\* undefined and never an error.
C2_NavigationFallbackIsResponse ==
    \A h \in Handlers :
        (/\ handlers[h].ops # <<>> /\ handlers[h].ops[1] = "fetch"
         /\ handlers[h].netResp = NetworkError
         /\ handlers[h].pc = "done")
        => handlers[h].result.kind = "response"

\* C3 (as claimed): the activate handler only runs in a worker whose static
\* cache holds every file of the shell manifest.
C3_ActivateOnlyAfterPrecache ==
    worker \in {"activating", "activated"}
        => StaticFileSet \subseteq DOMAIN CacheEntries(caches, STATIC_CACHE)

\* C4 (as claimed): every entry of the cache the fetch handler writes is a
\* status-200 response of type basic.
C4_OnlyOkBasicStored ==
    \A p \in DOMAIN CacheEntries(caches, CACHE_NAME) :
        /\ CacheEntries(caches, CACHE_NAME)[p].status = 200
        /\ CacheEntries(caches, CACHE_NAME)[p].type = "basic"

\* C5 (as claimed): after activation exactly the static and the runtime
\* generation exist.
C5_ExactlyBothGenerations ==
    worker = "activated" => CacheNames(caches) = {STATIC_CACHE, CACHE_NAME}

\* C5 (amended): after activation the static generation exists and no cache
\* of any other name than the static and the runtime generation exists.
C5_NoOtherGeneration ==
    worker = "activated"
        => /\ STATIC_CACHE \in CacheNames(caches)
           /\ CacheNames(caches) \subseteq {STATIC_CACHE, CACHE_NAME}

\* C5 witness: activation has completed and the runtime generation is absent.
C5_Witness ==
    worker = "activated" /\ claimed /\ CacheNames(caches) = {STATIC_CACHE}

C7_AtMostOneBanner == appended <= 1

\* C7 witness: the generic banner was shown by the timer and two
\* beforeinstallprompt events came after it.
C7_Witness ==
    /\ appended = 1 /\ banner.message = GENERIC_MESSAGE
    /\ timer = "fired" /\ nPrompts >= 2 /\ deferredPrompt # 0

\* C8: while the persisted dismissal flag is set, no step appends a banner
\* or changes bannerShown, whichever trigger calls createBanner.
C8_DismissedNoBanner ==
    [][dismissed => /\ appended' = appended
                    /\ bannerShown' = bannerShown
                    /\ banner' \in {banner, NoBanner}]_vars

\* C8 witness: with the flag set from the start, the load handler, the timer
\* and a beforeinstallprompt event have all run and no banner was appended.
C8_Witness ==
    /\ dismissed /\ ~isStandalone /\ appended = 0 /\ ~bannerShown
    /\ nPrompts >= 1 /\ timer = "fired"

\* C9: when the awaited userChoice settles, the dismissal flag is set if the
\* outcome is not 'accepted' or the promise rejected, and is left as it was
\* if the outcome is 'accepted'.
C9_ChoiceSetsFlag ==
    [][(awaiting # 0 /\ awaiting' = 0)
        => /\ choice' # "accepted" => dismissed'
           /\ choice' = "accepted" => dismissed' = dismissed]_vars

\* C9 witness: userChoice rejected after an Install click and the flag is set.
C9_Witness ==
    choice = "rejected" /\ dismissed /\ awaiting = 0 /\ banner = NoBanner

\* C10: on a standalone page no banner is ever created, no
\* beforeinstallprompt event is default-prevented or captured, no timer is
\* started, and the persisted flag is never written.
C10_StandaloneIdle ==
    /\ [](isStandalone =>
            /\ appended = 0 /\ banner = NoBanner /\ ~bannerShown
            /\ deferredPrompt = 0 /\ ~prevented
            /\ timer = "unset" /\ awaiting = 0 /\ choice = "none")
    /\ [][isStandalone => dismissed' = dismissed]_vars

\* C10 witness: a standalone page has loaded and received
\* beforeinstallprompt events.
C10_Witness == isStandalone /\ loaded /\ nPrompts >= 1

\* C12: on an iOS page that is not standalone and has no persisted
\* dismissal, the load event puts a banner on screen that carries the
\* instructional text and no Install button (every banner carries the
\* "Not now" button, which ClickDismiss models).
C12_IOSLoadBanner ==
    [][(isIOS /\ ~isStandalone /\ ~dismissed /\ ~loaded /\ loaded')
        => /\ banner' = [message |-> IOS_MESSAGE, showInstall |-> FALSE]
           /\ appended' = appended + 1
           /\ banner = NoBanner]_vars
C12_Witness ==
    /\ isIOS /\ ~isStandalone /\ loaded
    /\ banner = [message |-> IOS_MESSAGE, showInstall |-> FALSE]

\* C13: a push event whose payload is not JSON shows no notification and
\* lets no exception escape the push listener.
C13_MalformedPushSilent ==
    \A i \in 1..Len(pushes) :
        pushes[i].payload = "malformed" => ~pushes[i].shown /\ ~pushes[i].threw

\* C14 (as stated): for every request answered with respondWith, a cache
\* lookup precedes every network fetch made for it, navigations included.
C14_LookupBeforeFetch ==
    \A h \in Handlers :
        handlers[h].responded =>
            \A j \in 1..Len(handlers[h].ops) :
                handlers[h].ops[j] = "fetch" =>
                    \E i \in 1..(j - 1) : handlers[h].ops[i] \in {"match", "matchRoot"}

\* C14 (amended): a static-asset request starts with the cache lookup and
\* fetches only after it; a navigation starts with the network fetch and
\* looks the cache up only after that fetch has failed.
C14_StaticLookupFirstNavFetchFirst ==
    \A h \in Handlers :
        handlers[h].responded =>
            LET ops == handlers[h].ops
            IN  IF handlers[h].req.mode = "navigate"
                THEN /\ ops[1] = "fetch"
                     /\ \A j \in 1..Len(ops) :
                            ops[j] \in {"match", "matchRoot"} =>
                                j > 1 /\ handlers[h].netResp = NetworkError
                ELSE /\ ops[1] = "match"
                     /\ \A j \in 1..Len(ops) : ops[j] = "fetch" => j > 1
C14_Witness ==
    /\ \E h \in Handlers :
          /\ handlers[h].req.mode = "navigate"
          /\ handlers[h].ops = <<"fetch", "match", "matchRoot">>
    /\ \E h \in Handlers :
          /\ handlers[h].req.mode # "navigate"
          /\ handlers[h].responded
          /\ Len(handlers[h].ops) >= 2
          /\ handlers[h].ops[1] = "match" /\ handlers[h].ops[2] = "fetch"

\* C15 (as stated): deferredPrompt is non-null only while a banner is on
\* screen (or the Install click is awaiting the user's choice); it is null
\* after "Not now" and when the dismissal flag suppressed the banner.
C15_PromptOnlyWithBanner ==
    deferredPrompt # 0 => banner # NoBanner \/ awaiting # 0

\* C15 (amended): deferredPrompt is non-null only after a
\* beforeinstallprompt event was captured on a page that is not standalone,
\* and once captured it is cleared only when the userChoice awaited by an
\* Install click settles: it stays set after "Not now" and when the
\* dismissal flag suppressed the banner.
C15_PromptKeptUntilChoice ==
    /\ [](deferredPrompt # 0 => nPrompts >= 1 /\ deferredPrompt <= nPrompts /\ ~isStandalone)
    /\ [][(deferredPrompt # 0 /\ deferredPrompt' = 0) => (awaiting # 0 /\ awaiting' = 0)]_vars
    /\ [][(deferredPrompt # 0 /\ banner # NoBanner /\ banner' = NoBanner /\ awaiting' = awaiting)
            => deferredPrompt' = deferredPrompt]_vars
C15_Witness ==
    /\ deferredPrompt # 0 /\ banner = NoBanner /\ awaiting = 0
    /\ dismissed /\ appended = 1

\* C16: every call of sendAnalytics makes at most one transport attempt
\* (one sendBeacon or one fetch) and lets neither an exception nor a
\* rejected promise reach its caller, however the transport behaves.
C16_AtMostOneAttempt ==
    lastSend.url # "none" =>
        /\ lastSend.beacons + lastSend.fetches <= 1
        /\ ~lastSend.threw
        /\ ~lastSend.unhandled
C16_Witness ==
    /\ lastSend.url = "ping" /\ lastSend.useBeacon /\ hasBeacon
    /\ lastSend.outcome = "fails"
    /\ lastSend.beacons = 1 /\ lastSend.fetches = 0

\* C17: every page load emits exactly one pageview, on a standalone page
\* too.
C17_OnePageviewPerLoad == pageLoaded => pageviews = 1

\* C18: no interval of page time is reported in two pings: the seconds
\* reported so far never exceed the time elapsed since load.
C18_NoDoubleReport == pageLoaded => reported * 1000 <= now - loadedAt

\* C11: when loadTrialStatus receives a response with success true and
\* upgrade_required true, it opens the upgrade modal, whatever the trial
\* object and the plan type are.
C11_UpgradeRequiredOpensModal ==
    [][(/\ trial.pc = "pending" /\ trial'.pc = "done"
        /\ trial'.data.kind = "json"
        /\ trial'.data.success /\ trial'.data.upgrade_required)
        => upgradeModal' = "flex"]_vars

\* C19: a usage-stats response with success true and plan type "free" in
\* any letter case, received while the dismissal flag is not set, schedules
\* the discount modal with a delay of 10000 ms; any other response, or a
\* set flag, schedules nothing; the modal is opened only by that timer, so
\* at most once.
C19_DiscountScheduledOnce ==
    /\ [][(usage.pc = "pending" /\ usage'.pc = "done") =>
            IF /\ usage'.data.kind = "json"
               /\ usage'.data.success
               /\ usage'.data.plan_type \in {"free", "Free"}
               /\ ~discountDismissed
            THEN discountTimer' = [state |-> "pending", delay |-> 10000]
            ELSE discountTimer' = discountTimer /\ discountTimer.state = "unset"]_vars
    /\ [][discountOpens' # discountOpens =>
            /\ discountTimer.state = "pending" /\ discountTimer.delay = 10000
            /\ discountTimer'.state = "fired"
            /\ discountModal' = "flex"]_vars
    /\ [][discountTimer.state = "fired" => discountTimer' = discountTimer]_vars
    /\ [](discountOpens <= 1)
C19_Witness ==
    /\ usage.pc = "done" /\ usage.data.kind = "json"
    /\ usage.data.plan_type = "Free"
    /\ discountTimer.state = "fired" /\ discountOpens = 1 /\ discountModal = "flex"

\* C20: when the POST of saveProfileDetails settles, the profile modal is
\* closed if the response body carries a truthy success field, and its
\* display is left as it was on a transport error, an unparsable body, a
\* null body or a success field that is not truthy.
C20_SaveClosesOnlyOnSuccess ==
    [][(save.pc = "pending" /\ save'.pc = "done") =>
         IF save'.data.kind = "json" /\ save'.data.success \in {"true", "yes"}
         THEN profileModal' = "none"
         ELSE profileModal' = profileModal]_vars
C20_Witness ==
    /\ save.pc = "done" /\ save.data.kind = "json" /\ save.data.success = "false"
    /\ profileModal = "flex"

\* The requests the claims say are intercepted.
C21_Intercepts(req) ==
    /\ req.method = "GET"
    /\ req.origin = "same"
    /\ ~UnderDenylistedPrefix(req.path)
    /\ \/ req.mode = "navigate"
       \/ req.destination \in {"style", "script", "image", "font"}
       \/ StartsWith(req.path, <<"/", "s", "t", "a", "t", "i", "c", "/">>)

\* C21: the listener calls respondWith exactly for GET, same-origin
\* requests outside the denylist that are navigations or static assets; a
\* navigation, also one under /static/, gets the network-first policy, a
\* static asset that is no navigation the cache-first policy, and every
\* other request passes through untouched.
C21_RespondWithExactlyWhen ==
    \A h \in Handlers :
        handlers[h].pc # "idle" =>
            IF C21_Intercepts(handlers[h].req)
            THEN /\ handlers[h].responded
                 /\ handlers[h].ops[1] =
                      IF handlers[h].req.mode = "navigate" THEN "fetch" ELSE "match"
            ELSE /\ ~handlers[h].responded
                 /\ handlers[h].pc = "pass"
                 /\ handlers[h].ops = <<>>
                 /\ handlers[h].result = Pending
C21_Witness ==
    \E h \in Handlers :
        /\ handlers[h].req.mode = "navigate"
        /\ StartsWith(handlers[h].req.path, <<"/", "s", "t", "a", "t", "i", "c", "/">>)
        /\ handlers[h].responded
        /\ handlers[h].ops[1] = "fetch"

\* C22: in the static-asset branch, after a cache miss, a network response
\* that is not status 200 or not of type basic is the value handed back,
\* unchanged, and no cache write is started for it.
C22_UncacheableStaticReturnedNotStored ==
    \A h \in Handlers :
        (/\ handlers[h].responded
         /\ handlers[h].req.mode # "navigate"
         /\ handlers[h].netResp.kind = "response"
         /\ (handlers[h].netResp.status # 200 \/ handlers[h].netResp.type # "basic"))
        => (/\ handlers[h].result = handlers[h].netResp
            /\ handlers[h].ops = <<"match", "fetch">>
            /\ handlers[h].pc = "done")
C22_Witness ==
    /\ \E h \in Handlers :
          /\ handlers[h].ops = <<"match", "fetch">>
          /\ handlers[h].netResp = Resp(200, "cors")
          /\ handlers[h].result = Resp(200, "cors")
    /\ \E h \in Handlers :
          /\ handlers[h].ops = <<"match", "fetch">>
          /\ handlers[h].netResp = Resp(404, "basic")
          /\ handlers[h].result = Resp(404, "basic")

\* C23: a navigation whose network fetch succeeded is answered with the
\* network response, already before the cache write has started and also
\* after that write failed, with no cache lookup made; the write, when it
\* completes, stores that response in the runtime cache under the path of
\* the request.
C23_NavigationLiveResponse ==
    /\ [](\A h \in Handlers :
            (/\ handlers[h].req.mode = "navigate"
             /\ handlers[h].responded
             /\ handlers[h].netResp.kind = "response")
            => (/\ handlers[h].result = handlers[h].netResp
                /\ handlers[h].pc \in {"open", "put", "stored", "putFailed"}
                /\ handlers[h].ops[1] = "fetch"
                /\ \A j \in 1..Len(handlers[h].ops) :
                       handlers[h].ops[j] \notin {"match", "matchRoot"}))
    /\ [][\A h \in Handlers :
            (/\ handlers[h].req.mode = "navigate"
             /\ handlers[h].pc = "put" /\ handlers'[h].pc = "stored")
            => (/\ CACHE_NAME \in CacheNames(caches')
                /\ handlers[h].req.path \in DOMAIN CacheEntries(caches', CACHE_NAME)
                /\ CacheEntries(caches', CACHE_NAME)[handlers[h].req.path]
                     = handlers[h].netResp)]_vars
C23_Witness ==
    /\ \E h \in Handlers :
          /\ handlers[h].req.mode = "navigate"
          /\ handlers[h].pc = "putFailed"
          /\ handlers[h].result = Resp(200, "basic")
    /\ \E h \in Handlers :
          /\ handlers[h].req.mode = "navigate"
          /\ handlers[h].pc = "stored"
          /\ handlers[h].result = Resp(200, "basic")

\* C24: the activate step never deletes the static or the runtime
\* generation, and clients.claim is called only once no deletion is pending
\* and every cache of another name is gone.
C24_PurgeThenClaim ==
    /\ [][\A n \in {STATIC_CACHE, CACHE_NAME} :
            n \in CacheNames(caches) => n \in CacheNames(caches')]_vars
    /\ [][(~claimed /\ claimed') =>
            /\ toDelete = {}
            /\ CacheNames(caches) \subseteq {STATIC_CACHE, CACHE_NAME}]_vars
    /\ [](claimed => toDelete = {})
C24_Witness ==
    /\ claimed
    /\ CacheNames(caches) = {STATIC_CACHE, CACHE_NAME}
    /\ caches[1].name = CACHE_NAME

\* C25: skipWaiting is called only by an install whose static cache holds
\* every file of the manifest; an install with a failed manifest fetch
\* never calls it.
C25_SkipWaitingOnlyAfterPrecache ==
    /\ [][(~skipWaitingCalled /\ skipWaitingCalled') =>
            StaticFileSet \subseteq DOMAIN CacheEntries(caches, STATIC_CACHE)]_vars
    /\ [](skipWaitingCalled =>
            StaticFileSet \subseteq DOMAIN CacheEntries(caches, STATIC_CACHE))
    /\ [](step = "catch" => ~skipWaitingCalled)
C25_Witness ==
    /\ worker = "installed"
    /\ skipWaitingCalled
    /\ StaticFileSet \subseteq DOMAIN CacheEntries(caches, STATIC_CACHE)

\* C26: the timer started by the load event exists only on a page that is
\* neither iOS nor standalone; when it fires, the generic banner is rendered
\* if no prompt is captured, no banner was shown before and the dismissal
\* flag is not set, and otherwise the callback changes nothing.
C26_GenericBannerExactlyWhen ==
    /\ [](timer # "unset" => ~isIOS /\ ~isStandalone /\ loaded)
    /\ [][(timer = "pending" /\ timer' = "fired") =>
            IF deferredPrompt = 0 /\ ~bannerShown /\ ~dismissed
            THEN /\ banner' = [message |-> GENERIC_MESSAGE, showInstall |-> FALSE]
                 /\ bannerShown'
                 /\ appended' = appended + 1
            ELSE UNCHANGED <<banner, bannerShown, appended, dismissed, deferredPrompt>>]_vars
C26_Witness ==
    /\ timer = "fired"
    /\ banner = [message |-> GENERIC_MESSAGE, showInstall |-> FALSE]
    /\ nPrompts = 0

\* C27: from the Install click on the banner is off the screen, and when
\* the click handler completes, however userChoice settled, deferredPrompt
\* is null.
C27_InstallClickClears ==
    /\ [](awaiting # 0 => banner = NoBanner)
    /\ [][(awaiting # 0 /\ awaiting' = 0) =>
            /\ deferredPrompt' = 0
            /\ banner' = NoBanner]_vars
    /\ [][(banner # NoBanner /\ banner.showInstall /\ banner' = NoBanner
           /\ awaiting' = 0 /\ dismissed' = dismissed) => deferredPrompt' = 0]_vars
C27_Witness ==
    /\ choice = "rejected" /\ awaiting = 0 /\ deferredPrompt = 0
    /\ banner = NoBanner /\ nPrompts >= 2

\* C30: whenever a banner with an Install button is on screen a prompt is
\* captured, so every Install click calls prompt() and waits for the
\* user's choice.
C30_InstallBannerHasPrompt ==
    /\ []((banner # NoBanner /\ banner.showInstall) => deferredPrompt # 0)
    /\ [][(banner # NoBanner /\ banner.showInstall /\ banner' = NoBanner
           /\ dismissed' = dismissed) => awaiting' # 0]_vars
C30_Witness ==
    /\ banner # NoBanner /\ banner.showInstall
    /\ deferredPrompt = 2 /\ timer = "fired"

\* C28: a banner that left the screen without an Install click left it by
\* "Not now", and then the flag is set; once the flag is set it stays set
\* and no banner is on screen or appended again, in this page and in later
\* loads of the page.
C28_NotNowIsFinal ==
    /\ []((bannerShown /\ banner = NoBanner /\ awaiting = 0 /\ choice = "none")
            => dismissed)
    /\ [][dismissed => /\ dismissed'
                       /\ banner' = NoBanner
                       /\ appended' <= appended
                       /\ bannerShown' => bannerShown]_vars
C28_Witness ==
    /\ dismissed /\ choice = "none"
    /\ ~bannerShown /\ appended = 0
    /\ loaded /\ timer = "fired" /\ nPrompts >= 1 /\ prevented

\* C29: when loadTrialStatus receives a response with success true: if the
\* plan is free and the trial has expired it opens the upgrade modal; if
\* nothing blocks (no upgrade_required, not free and expired) and a trial
\* has started, the banner shows the days remaining and the modal is left
\* alone; if nothing blocks and no trial has started, the banner is hidden
\* and the modal is left alone.
C29_TrialStatusCases ==
    [][(/\ trial.pc = "pending" /\ trial'.pc = "done"
        /\ trial'.data.kind = "json"
        /\ trial'.data.success)
        => LET data == trial'.data
               free == data.plan_type \in {"free", "FREE"}
               expired == data.trial \in {"expired_only", "started_expired"}
               started == data.trial \in {"started", "started_expired"}
           IN  IF free /\ expired
               THEN upgradeModal' = "flex"
               ELSE IF data.upgrade_required
               THEN TRUE
               ELSE IF started
               THEN /\ trialBanner' = "block" /\ trialText' = "days"
                    /\ upgradeModal' = upgradeModal
               ELSE /\ trialBanner' = "none"
                    /\ upgradeModal' = upgradeModal]_vars

\* C31: when the fetch of a navigation to u has failed and the runtime cache
\* holds an entry for u stored by an earlier navigation, the response the
\* fallback hands to respondWith is that entry, the one stored last for u.
C31_FallbackIsLatestStored ==
    [][\A h \in Handlers :
         (/\ handlers[h].pc = "navMatch"
          /\ handlers'[h].pc # "navMatch"
          /\ \E g \in Handlers :
               /\ handlers[g].req = handlers[h].req
               /\ handlers[g].pc = "stored"
          /\ handlers[h].req.path \in DOMAIN CacheEntries(caches, CACHE_NAME))
         => /\ handlers'[h].pc = "done"
            /\ handlers'[h].result =
                 CacheEntries(caches, CACHE_NAME)[handlers[h].req.path]]_vars

\* C32: a caches.delete of the activate step removes a cache of an earlier
\* generation only while the worker's own static cache holds every file of
\* the shell manifest, the root document among them.
C32_PurgeOnlyWithShell ==
    [][(worker = "activating" /\ CacheNames(caches') # CacheNames(caches))
        => /\ StaticFileSet \subseteq DOMAIN CacheEntries(caches, STATIC_CACHE)
           /\ RootPath \in DOMAIN CacheEntries(caches', STATIC_CACHE)]_vars

\* C33: every entry of the cache the fetch handler writes is keyed by a path
\* under none of the denylisted prefixes, and every request for which the
\* handler has started a write is a same-origin GET request with such a path.
C33_NoExcludedRequestStored ==
    /\ \A p \in DOMAIN CacheEntries(caches, CACHE_NAME) : ~UnderDenylistedPrefix(p)
    /\ \A h \in Handlers :
         handlers[h].pc \in {"open", "put", "stored", "putFailed"}
         => /\ handlers[h].req.method = "GET"
            /\ handlers[h].req.origin = "same"
            /\ ~UnderDenylistedPrefix(handlers[h].req.path)
C33_Witness ==
    /\ handlers[1].pc = "pass"
    /\ handlers[1].req.mode = "navigate" /\ handlers[1].req.method = "GET"
    /\ UnderDenylistedPrefix(handlers[1].req.path)
    /\ handlers[2].pc = "stored"
    /\ DOMAIN CacheEntries(caches, CACHE_NAME) = {handlers[2].req.path}

\* C34: no step of the controller clears the persisted dismissal flag or
\* resets the bannerShown latch, and once the banner the page appended has
\* been removed no banner is on screen or appended again during that page
\* lifetime, whether or not the flag was written.
C34_FlagAndLatchMonotonic ==
    [][/\ dismissed => dismissed'
       /\ bannerShown => bannerShown'
       /\ (bannerShown /\ banner = NoBanner)
            => (banner' = NoBanner /\ appended' = appended)]_vars
C34_Witness ==
    /\ choice = "accepted" /\ ~dismissed
    /\ bannerShown /\ banner = NoBanner /\ appended = 1
    /\ awaiting = 0 /\ deferredPrompt # 0 /\ timer = "fired"

\* C35: the discount modal is not opened in a state where the dismissal
\* flag cf_discount_popup_dismissed is set, also when the flag was written
\* after the timer was scheduled and before it fired.
C35_NoOpenWhileDismissed ==
    [][(discountOpens' # discountOpens \/ (discountModal # "flex" /\ discountModal' = "flex"))
        => ~discountDismissed]_vars

\* C36: the load event calls navigator.serviceWorker.register('/sw.js')
\* exactly when the serviceWorker API exists, the page is served over https
\* or from localhost or 127.0.0.1, and the page is not standalone; register
\* is called nowhere else; a rejection of its promise is caught, and the
\* settling of the promise changes nothing of the banner controller.
C36_RegistersExactlyWhen ==
    /\ [][(~loaded /\ loaded') =>
            IF /\ swApi
               /\ (protocol = "https:" \/ hostname \in {"localhost", "127.0.0.1"})
               /\ ~isStandalone
            THEN registration' = [state |-> "pending", script |-> "/sw.js"]
            ELSE registration' = registration /\ registration.state = "none"]_vars
    /\ [][(registration.state = "none" /\ registration' # registration)
            => (~loaded /\ loaded')]_vars
    /\ [](registration.state \in {"none", "pending", "registered", "caught"})
    /\ [][(registration.state = "pending" /\ registration' # registration)
            => /\ registration'.state \in {"registered", "caught"}
               /\ UNCHANGED <<dismissed, deferredPrompt, bannerShown, banner, appended,
                              loaded, timer, awaiting, choice, nPrompts>>]_vars
C36_Witness ==
    /\ registration = [state |-> "caught", script |-> "/sw.js"]
    /\ protocol = "http:" /\ hostname = "127.0.0.1" /\ swApi /\ ~isStandalone
    /\ loaded /\ timer = "fired" /\ banner # NoBanner

====
